---- MODULE Spec2Model ----
(***************************************************************************)
(* Model of the AI Mock Interview Streamlit application (src/main.py).     *)
(*                                                                         *)
(* A string is the sequence of the code points of its characters.  The     *)
(* text returned by the generative model is kept as one flat string with   *)
(* line feeds, and is split, prefix-tested, split at the first colon and   *)
(* stripped as main() does it.  One script run of main() is one action.    *)
(***************************************************************************)
EXTENDS Integers, Sequences, FiniteSets, TLC

(***************************************************************************)
(* Bounds of the model.                                                    *)
(***************************************************************************)
MaxLines == 4
MaxBlocks == 4
MaxSlider == 5
MaxPages == 1
MaxAppBlocks == 4

(***************************************************************************)
(* Program constants.                                                      *)
(***************************************************************************)
SliderMin == 3
SliderMax == 10
SliderDefault == 5

\* "\n", ":" and " "
NL == 10
Colon == 58
Space == 32
\* the characters str.strip() removes, those with str.isspace(): \t \n \v
\* \f \r, U+001C..U+001F, space, U+0085, U+00A0, U+1680, U+2000..U+200A,
\* U+2028, U+2029, U+202F, U+205F, U+3000
Whitespace == (9..13) \cup (28..32) \cup {133, 160, 5760}
              \cup (8192..8202) \cup {8232, 8233, 8239, 8287, 12288}
\* "Question " and "Expected:"
QuestionPrefix == <<81, 117, 101, 115, 116, 105, 111, 110, Space>>
ExpectedPrefix == <<69, 120, 112, 101, 99, 116, 101, 100, Colon>>

(***************************************************************************)
(* Python string primitives used by main().                                *)
(***************************************************************************)
Min(a, b) == IF a <= b THEN a ELSE b

\* s.startswith(p)
StartsWith(s, p) == Len(s) >= Len(p) /\ SubSeq(s, 1, Len(p)) = p

\* positions of character c in s
Positions(s, c) == {i \in 1..Len(s) : s[i] = c}

SetMin(S) == CHOOSE m \in S : \A x \in S : m <= x
SetMax(S) == CHOOSE m \in S : \A x \in S : m >= x

\* s.strip()
Strip(s) ==
    LET keep == {i \in 1..Len(s) : s[i] \notin Whitespace}
    IN  IF keep = {} THEN <<>> ELSE SubSeq(s, SetMin(keep), SetMax(keep))

\* len(s.split(":", 1)) > 1, the condition under which [1] is defined
HasColon(s) == Positions(s, Colon) # {}

\* s.split(":", 1)[1] where it is defined
AfterColon(s) == SubSeq(s, SetMin(Positions(s, Colon)) + 1, Len(s))

\* s.split('\n')
RECURSIVE SplitLines(_)
SplitLines(s) ==
    LET nls == Positions(s, NL)
    IN  IF nls = {} THEN <<s>>
        ELSE <<SubSeq(s, 1, SetMin(nls) - 1)>>
             \o SplitLines(SubSeq(s, SetMin(nls) + 1, Len(s)))

\* '\n'.join(ls)
RECURSIVE JoinLines(_)
JoinLines(ls) ==
    IF ls = <<>> THEN <<>>
    ELSE IF Len(ls) = 1 THEN ls[1]
    ELSE ls[1] \o <<NL>> \o JoinLines(Tail(ls))

\* xs[:n] for n >= 0
Take(xs, n) == SubSeq(xs, 1, Min(n, Len(xs)))

(***************************************************************************)
(* The parser of main(): the loop state is the list built so far, the      *)
(* current question, the current expected text and whether the loop body   *)
(* raised (IndexError of split(":", 1)[1] on a line without a colon).      *)
(***************************************************************************)
ParserInit ==
    [qwe |-> <<>>, current_q |-> <<>>, current_exp |-> <<>>, raised |-> FALSE]

\* one iteration of "for line in lines"
ParseLine(st, line) ==
    IF st.raised THEN st
    ELSE IF StartsWith(line, QuestionPrefix) THEN
        LET flushed == IF st.current_q # <<>>
                       THEN Append(st.qwe, <<st.current_q, st.current_exp>>)
                       ELSE st.qwe
        IN  IF HasColon(line)
            THEN [qwe |-> flushed, current_q |-> Strip(AfterColon(line)),
                  current_exp |-> <<>>, raised |-> FALSE]
            ELSE [st EXCEPT !.qwe = flushed, !.raised = TRUE]
    ELSE IF StartsWith(line, ExpectedPrefix) THEN
        [st EXCEPT !.current_exp = Strip(AfterColon(line))]
    ELSE IF Strip(line) # <<>> THEN
        [st EXCEPT !.current_q = st.current_q \o <<Space>> \o Strip(line)]
    ELSE st

\* variant: without the flush after the loop
ParseFlush_Missing(st) == st.qwe

\* the flush after the loop
ParseFlush(st) ==
    IF st.current_q # <<>>
    THEN Append(st.qwe, <<st.current_q, st.current_exp>>)
    ELSE st.qwe

RECURSIVE ParseFrom(_, _, _)
ParseFrom(st, lines, i) ==
    IF i > Len(lines) THEN st ELSE ParseFrom(ParseLine(st, lines[i]), lines, i + 1)

\* the whole parsing step on a stored questions_text, with the truncation
\* to num_questions; raised = TRUE when the loop ended with an exception
ParseQuestions(text, n) ==
    LET st == ParseFrom(ParserInit, SplitLines(text), 1)
    IN  [raised |-> st.raised,
         pairs |-> IF st.raised THEN <<>> ELSE Take(ParseFlush(st), n)]

\* [q for q, _ in pairs] and [e for _, e in pairs]
Firsts(pairs) == [i \in 1..Len(pairs) |-> pairs[i][1]]
Seconds(pairs) == [i \in 1..Len(pairs) |-> pairs[i][2]]

(***************************************************************************)
(* State.  session_state is a dictionary: a function whose domain is the   *)
(* set of keys present.  The widgets (API key, uploader, slider) keep      *)
(* their values between runs.  rendered records which widgets the last     *)
(* run put on the page, run records what the last script run did.          *)
(* The p_* variables are the locals of the parsing step executed one loop  *)
(* iteration at a time.                                                    *)
(***************************************************************************)
VARIABLES api_key, uploaded_file, num_questions, answers, session_state,
          rerun_pending, rendered, run, generated,
          p_pc, p_text, p_num, p_lines, p_i, p_st, p_result, p_blocks

app_vars == <<api_key, uploaded_file, num_questions, answers, session_state,
              rerun_pending, rendered, run, generated>>
parse_vars == <<p_pc, p_text, p_num, p_lines, p_i, p_st, p_result, p_blocks>>
vars == <<app_vars, parse_vars>>

(***************************************************************************)
(* Texts the generative model may return.                                  *)
(***************************************************************************)
\* all sequences over S of length at most n
SeqsUpTo(S, n) == UNION {[1..k -> S] : k \in 0..n}

\* "Question 1: a", "Question 2:" + U+00A0, "Question 3", "Expected: b" +
\* form feed, "c" and the empty line
LineQuestion == QuestionPrefix \o <<49, Colon, Space, 97>>
LineQuestionEmpty == QuestionPrefix \o <<50, Colon, 160>>
LineQuestionNoColon == QuestionPrefix \o <<51>>
LineExpected == ExpectedPrefix \o <<Space, 98, 12>>
LinePlain == <<99>>
LineBlank == <<>>

ResponseLines == {LineQuestion, LineQuestionEmpty, LineQuestionNoColon,
                  LineExpected, LinePlain, LineBlank}

ResponseTexts == {JoinLines(ls) : ls \in SeqsUpTo(ResponseLines, MaxLines)}

\* str(n) for n >= 1
\* "0" .. "9"
Digits == <<48, 49, 50, 51, 52, 53, 54, 55, 56, 57>>
RECURSIVE Decimal(_)
Decimal(n) == IF n < 10 THEN <<Digits[n + 1]>>
              ELSE Decimal(n \div 10) \o <<Digits[(n % 10) + 1]>>

\* texts in the format the prompt asks for
\* the question slot holds "", " a " or "a: b", the expected slot "" or "k "
QuestionTexts == {<<>>, <<Space, 97, Space>>, <<97, Colon, Space, 98>>}
ExpectedTexts == {<<>>, <<107, Space>>}
Blocks == [q : QuestionTexts, e : ExpectedTexts]

FormatBlock(i, b, blank) ==
    <<QuestionPrefix \o Decimal(i) \o <<Colon, Space>> \o b.q,
      ExpectedPrefix \o <<Space>> \o b.e>>
    \o (IF blank THEN <<LineBlank>> ELSE <<>>)

RECURSIVE FormatBlocksFrom(_, _, _)
FormatBlocksFrom(bs, i, blank) ==
    IF i > Len(bs) THEN <<>>
    ELSE FormatBlock(i, bs[i], blank) \o FormatBlocksFrom(bs, i + 1, blank)

FormattedText(bs, blank) == JoinLines(FormatBlocksFrom(bs, 1, blank))

SliderValues == SliderMin..Min(MaxSlider, SliderMax)

(***************************************************************************)
(* The parsing step of main(), one loop iteration per action.              *)
(***************************************************************************)
ParseIdle ==
    /\ p_pc = "idle" /\ p_text = <<>> /\ p_num = SliderDefault
    /\ p_lines = <<>> /\ p_i = 0 /\ p_st = ParserInit
    /\ p_result = <<>> /\ p_blocks = <<>>

ParseStart ==
    /\ p_pc = "start"
    /\ p_lines' = SplitLines(p_text)
    /\ p_st' = ParserInit
    /\ p_i' = 1
    /\ p_pc' = "loop"
    /\ UNCHANGED <<p_text, p_num, p_result, p_blocks, app_vars>>

ParseLoop ==
    /\ p_pc = "loop"
    /\ p_i <= Len(p_lines)
    /\ p_st' = ParseLine(p_st, p_lines[p_i])
    /\ IF p_st'.raised
       THEN p_pc' = "raised" /\ p_i' = p_i
       ELSE p_pc' = "loop" /\ p_i' = p_i + 1
    /\ UNCHANGED <<p_text, p_num, p_lines, p_result, p_blocks, app_vars>>

ParseEnd ==
    /\ p_pc = "loop"
    /\ p_i > Len(p_lines)
    /\ p_result' = Take(ParseFlush(p_st), p_num)
    /\ p_pc' = "done"
    /\ UNCHANGED <<p_text, p_num, p_lines, p_i, p_st, p_blocks, app_vars>>

NextParse == ParseStart \/ ParseLoop \/ ParseEnd

AppIdle ==
    /\ api_key = FALSE
    /\ uploaded_file = [present |-> FALSE, readable |-> FALSE, pages |-> <<>>]
    /\ num_questions = SliderDefault /\ answers = <<>>
    /\ session_state = <<>>
    /\ rerun_pending = FALSE /\ generated = FALSE
    /\ rendered = [uploader |-> FALSE, generate |-> FALSE,
                   submit |-> FALSE, areas |-> 0]
    /\ run = [button |-> "none", stop |-> "init", resume_text |-> <<>>,
              gen_request |-> FALSE, eval_request |-> FALSE,
              warning |-> FALSE, displayed |-> FALSE]

InitParse ==
    /\ AppIdle
    /\ p_pc = "start"
    /\ p_text \in ResponseTexts
    /\ p_num \in SliderValues
    /\ p_lines = <<>> /\ p_i = 0 /\ p_st = ParserInit
    /\ p_result = <<>> /\ p_blocks = <<>>

InitFormat ==
    /\ AppIdle
    /\ p_pc = "start"
    /\ p_blocks \in SeqsUpTo(Blocks, MaxBlocks)
    /\ \E blank \in BOOLEAN : p_text = FormattedText(p_blocks, blank)
    /\ p_num \in SliderValues
    /\ p_lines = <<>> /\ p_i = 0 /\ p_st = ParserInit
    /\ p_result = <<>>

SpecParse == InitParse /\ [][NextParse]_vars
SpecFormat == InitFormat /\ [][NextParse]_vars

(***************************************************************************)
(* The application: inputs.                                                *)
(***************************************************************************)
\* the value of the uploader: None, or a PDF that is unreadable (pdfplumber
\* raises) or a list of page texts, the empty text standing for a page
\* without extractable text
\* page texts "", " " + form feed, and "r"
PageTexts == {<<>>, <<Space, 12>>, <<114>>}
NoFile == [present |-> FALSE, readable |-> FALSE, pages |-> <<>>]
Files == {[present |-> TRUE, readable |-> FALSE, pages |-> <<>>]}
         \cup [present : {TRUE}, readable : {TRUE},
               pages : SeqsUpTo(PageTexts, MaxPages)]

\* responses of the model to the application: k blocks in the requested
\* format, alone or followed by a "Question" line that has no colon
AppBlock == [q |-> <<97>>, e |-> <<107>>]
AppResponseTexts ==
    {JoinLines(FormatBlocksFrom([i \in 1..k |-> AppBlock], 1, FALSE) \o tail) :
        k \in 0..MaxAppBlocks, tail \in {<<>>, <<LineQuestionNoColon>>}}

EvalResults == {<<55>>, <<57>>}
AnswerValues == {<<>>, <<121>>}

EmptyDict == [k \in {} |-> <<>>]
\* d[k] = v on a dictionary
Put(d, k, v) == [x \in DOMAIN d \cup {k} |-> IF x = k THEN v ELSE d[x]]

RECURSIVE PagesText(_)
PagesText(pages) ==
    IF pages = <<>> THEN <<>>
    ELSE (IF Head(pages) # <<>> THEN Head(pages) \o <<NL>> ELSE <<>>)
         \o PagesText(Tail(pages))

\* variant: without the "if not text.strip()" check and the final strip
extract_resume_text_Unstripped(f) ==
    IF ~f.present THEN <<>>
    ELSE IF ~f.readable THEN <<>>
    ELSE PagesText(f.pages)

extract_resume_text(f) ==
    IF ~f.present THEN <<>>
    ELSE IF ~f.readable THEN <<>>
    ELSE Strip(PagesText(f.pages))

\* variant: the button alone decides
GenerateGuard_ButtonOnly(button, resume_text) == button = "generate"

\* st.button("Generate Questions") and resume_text
GenerateGuard(button, resume_text) ==
    button = "generate" /\ resume_text # <<>>

\* variant: any(answers.values())
AllAnswered_Any(ans) == \E i \in DOMAIN ans : ans[i] # <<>>

\* all(answers.values())
AllAnswered(ans) == \A i \in DOMAIN ans : ans[i] # <<>>

\* the values of the text areas ans_1..ans_k as this run reads them
ReadAnswers(ans, k) ==
    [i \in 1..k |-> IF i \in DOMAIN ans THEN ans[i] ELSE <<>>]

NoRun ==
    [button |-> "none", stop |-> "init", resume_text |-> <<>>,
     gen_request |-> FALSE, eval_request |-> FALSE, warning |-> FALSE,
     displayed |-> FALSE]

\* the page after a run that stopped in configure_gemini, after one that
\* stopped at the uploader, and after one that got past the two buttons
NothingRendered ==
    [uploader |-> FALSE, generate |-> FALSE, submit |-> FALSE, areas |-> 0]
UploaderRendered == [NothingRendered EXCEPT !.uploader = TRUE]
TopRendered == [UploaderRendered EXCEPT !.generate = TRUE]

(***************************************************************************)
(* One script run of main().  The result names the new session state, the  *)
(* widgets rendered, whether st.rerun() was called, and what the run did.  *)
(* ok is whether the call of the generative model returns, response and    *)
(* result are what it returns to generate_questions and evaluate_answers.  *)
(***************************************************************************)
\* the block under "if 'questions_text' in st.session_state"
DisplayBlock(ss, button, ans, n, resume_text, ok, result) ==
    LET parsed == ParseQuestions(ss["questions_text"], n)
        base == [NoRun EXCEPT !.button = button, !.resume_text = resume_text,
                              !.displayed = TRUE]
        stored == Put(Put(ss, "questions", Firsts(parsed.pairs)),
                      "expected", Seconds(parsed.pairs))
        k == Len(parsed.pairs)
        read == ReadAnswers(ans, k)
        page == [TopRendered EXCEPT !.submit = TRUE, !.areas = k]
    IN  IF parsed.raised THEN
            [session |-> ss, rerun |-> FALSE, answers |-> EmptyDict,
             rendered |-> TopRendered,
             run |-> [base EXCEPT !.stop = "parse_error"]]
        ELSE IF button = "submit" THEN
            IF AllAnswered(read) THEN
                IF ok THEN
                    [session |-> Put(stored, "eval_result", result),
                     rerun |-> TRUE, answers |-> read,
                     rendered |-> page,
                     run |-> [base EXCEPT !.stop = "rerun_evaluate",
                                          !.eval_request = TRUE]]
                ELSE
                    [session |-> stored, rerun |-> FALSE, answers |-> read,
                     rendered |-> page,
                     run |-> [base EXCEPT !.stop = "evaluate_error",
                                          !.eval_request = TRUE]]
            ELSE
                [session |-> stored, rerun |-> FALSE, answers |-> read,
                 rendered |-> page,
                 run |-> [base EXCEPT !.stop = "end", !.warning = TRUE]]
        ELSE
            [session |-> stored, rerun |-> FALSE, answers |-> read,
             rendered |-> page, run |-> [base EXCEPT !.stop = "end"]]

main(key, file, n, ss, ans, button, ok, response, result) ==
    LET resume_text == extract_resume_text(file)
        base == [NoRun EXCEPT !.button = button, !.resume_text = resume_text]
    IN  IF ~key THEN
            [session |-> ss, rerun |-> FALSE, answers |-> EmptyDict,
             rendered |-> NothingRendered,
             run |-> [base EXCEPT !.stop = "api_key", !.resume_text = <<>>]]
        ELSE IF file.present /\ resume_text = <<>> THEN
            [session |-> ss, rerun |-> FALSE, answers |-> EmptyDict,
             rendered |-> UploaderRendered,
             run |-> [base EXCEPT !.stop = "extract"]]
        ELSE IF GenerateGuard(button, resume_text) THEN
            IF ok THEN
                [session |-> Put(Put(ss, "questions_text", response),
                                 "questions", <<>>),
                 rerun |-> TRUE, answers |-> ans,
                 rendered |-> TopRendered,
                 run |-> [base EXCEPT !.stop = "rerun_generate",
                                      !.gen_request = TRUE]]
            ELSE
                [session |-> ss, rerun |-> FALSE, answers |-> EmptyDict,
                 rendered |-> TopRendered,
                 run |-> [base EXCEPT !.stop = "generate_error",
                                      !.gen_request = TRUE]]
        ELSE IF "questions_text" \in DOMAIN ss THEN
            DisplayBlock(ss, button, ans, n, resume_text, ok, result)
        ELSE
            [session |-> ss, rerun |-> FALSE, answers |-> EmptyDict,
             rendered |-> TopRendered,
             run |-> [base EXCEPT !.stop = "end"]]

(***************************************************************************)
(* The application: user actions.  Every widget interaction makes the      *)
(* framework run main() once with the new widget values; a button is True  *)
(* only in the run its press caused.  While st.rerun() is pending the      *)
(* next run is that rerun.                                                 *)
(***************************************************************************)
Apply(o) ==
    /\ session_state' = o.session
    /\ rerun_pending' = o.rerun
    /\ rendered' = o.rendered
    /\ answers' = o.answers
    /\ run' = o.run
    /\ generated' = (generated \/ o.run.stop = "rerun_generate")

RunWith(key, file, n, ans, button, ok, response, result) ==
    /\ Apply(main(key, file, n, session_state, ans, button,
                  ok, response, result))
    /\ api_key' = key
    /\ uploaded_file' = file
    /\ num_questions' = n
    /\ UNCHANGED parse_vars

\* a run in which no button is pressed calls no model
NoPress(key, file, n, ans) ==
    RunWith(key, file, n, ans, "none", TRUE, <<>>, <<>>)

\* the first run of a session and every run started by st.rerun()
Rerun ==
    /\ rerun_pending
    /\ NoPress(api_key, uploaded_file, num_questions, answers)

EnterApiKey ==
    /\ ~rerun_pending
    /\ \E key \in BOOLEAN :
           /\ key # api_key
           /\ NoPress(key, uploaded_file, num_questions, answers)

UploadFile ==
    /\ ~rerun_pending
    /\ rendered.uploader
    /\ \E file \in Files \cup {NoFile} :
           /\ file # uploaded_file
           /\ NoPress(api_key, file, num_questions, answers)

MoveSlider ==
    /\ ~rerun_pending
    /\ rendered.generate
    /\ \E n \in SliderValues :
           /\ n # num_questions
           /\ NoPress(api_key, uploaded_file, n, answers)

EditAnswer ==
    /\ ~rerun_pending
    /\ \E i \in 1..rendered.areas, v \in AnswerValues :
           /\ v # answers[i]
           /\ NoPress(api_key, uploaded_file, num_questions,
                      [answers EXCEPT ![i] = v])

PressGenerate ==
    /\ ~rerun_pending
    /\ rendered.generate
    /\ \E ok \in BOOLEAN, response \in AppResponseTexts :
           RunWith(api_key, uploaded_file, num_questions, answers,
                   "generate", ok, response, <<>>)

PressSubmit ==
    /\ ~rerun_pending
    /\ rendered.submit
    /\ \E ok \in BOOLEAN, result \in EvalResults :
           RunWith(api_key, uploaded_file, num_questions, answers,
                   "submit", ok, <<>>, result)

Init ==
    /\ api_key \in BOOLEAN
    /\ uploaded_file = NoFile
    /\ num_questions = SliderDefault
    /\ answers = EmptyDict
    /\ session_state = EmptyDict
    /\ rerun_pending = TRUE
    /\ rendered = NothingRendered
    /\ run = NoRun
    /\ generated = FALSE
    /\ ParseIdle

Next ==
    \/ Rerun
    \/ EnterApiKey
    \/ UploadFile
    \/ MoveSlider
    \/ EditAnswer
    \/ PressGenerate
    \/ PressSubmit

Spec == Init /\ [][Next]_vars

(***************************************************************************)
(* Properties.                                                             *)
(***************************************************************************)
Has(key) == key \in DOMAIN session_state

\* an uploaded file from which no text comes: unreadable, no page, or
\* pages of whitespace only
BlankFile(f) ==
    /\ f.present
    /\ ~f.readable \/ \A i \in 1..Len(f.pages) : Strip(f.pages[i]) = <<>>

\* C1: a question-generation request is sent only in a run in which the
\* resume extraction returned non-empty text, and an evaluation request is
\* sent only after a generation request has completed and stored
\* questions_text in the session.
C1_StepOrder ==
    /\ run.gen_request =>
           /\ uploaded_file.present
           /\ ~BlankFile(uploaded_file)
           /\ run.resume_text # <<>>
    /\ run.eval_request => generated /\ Has("questions_text")

C1_Witness ==
    /\ run.eval_request
    /\ run.stop = "rerun_evaluate"
    /\ Len(session_state["questions"]) > 0

\* C2: in the run of a press of "Submit Answers for Evaluation",
\* evaluate_answers is called if and only if every displayed question has a
\* non-empty answer; otherwise the warning is shown, no model call is made
\* and session_state.eval_result is left as it was.
C2_SubmitGate ==
    [][run'.button = "submit" =>
         LET complete == \A i \in 1..Len(session_state'["questions"]) :
                             answers'[i] # <<>>
         IN  /\ run'.displayed
             /\ run'.eval_request <=> complete
             /\ ~complete =>
                   /\ run'.warning
                   /\ ~run'.gen_request
                   /\ ~rerun_pending'
                   /\ ("eval_result" \in DOMAIN session_state')
                          <=> Has("eval_result")
                   /\ Has("eval_result") =>
                          session_state'["eval_result"]
                              = session_state["eval_result"]]_vars

C2_Witness ==
    /\ run.button = "submit"
    /\ run.warning
    /\ Has("eval_result")
    /\ \E i \in DOMAIN answers : answers[i] # <<>>

\* C3: a run in which a file is uploaded and no text is extracted from it
\* stops after the error message: no question is generated or displayed, no
\* evaluation is requested and the session state is unchanged.
C3_ExtractStop ==
    [][(api_key' /\ BlankFile(uploaded_file')) =>
          /\ run'.stop = "extract"
          /\ run'.resume_text = <<>>
          /\ ~run'.gen_request
          /\ ~run'.eval_request
          /\ ~run'.displayed
          /\ rendered'.areas = 0
          /\ ~rendered'.generate /\ ~rendered'.submit
          /\ ~rerun_pending'
          /\ session_state' = session_state]_vars

C3_Witness ==
    /\ run.stop = "extract"
    /\ BlankFile(uploaded_file)
    /\ uploaded_file.readable
    /\ Len(uploaded_file.pages) > 0
    /\ Has("eval_result")

\* C4: after every run that reaches the question display,
\* session_state.questions and session_state.expected have the same length,
\* which is at most the value of the num_questions slider (3 to 10).
C4_SameLength ==
    (run.displayed /\ Has("questions") /\ Has("expected")) =>
        /\ Len(session_state["questions"]) = Len(session_state["expected"])
        /\ Len(session_state["questions"]) <= num_questions
        /\ num_questions \in SliderMin..SliderMax

\* C5: for a text of k blocks in the requested format ("Question i: q_i",
\* "Expected: e_i", optional blank line) the parser yields exactly the pairs
\* (q_1, e_1) .. (q_m, e_m) in order, m = min(k, num_questions).
C5_FormattedPairs ==
    /\ p_pc # "raised"
    /\ p_pc = "done" =>
           /\ Len(p_result) = Min(Len(p_blocks), p_num)
           /\ \A i \in 1..Len(p_result) :
                  p_result[i] = <<p_blocks[i].q, p_blocks[i].e>>

\* the pairs (strip(q_i), strip(e_i)) of the blocks bs[i..] whose question
\* text is not empty after stripping
RECURSIVE KeptPairs(_, _)
KeptPairs(bs, i) ==
    IF i > Len(bs) THEN <<>>
    ELSE (IF Strip(bs[i].q) # <<>>
          THEN <<<<Strip(bs[i].q), Strip(bs[i].e)>>>>
          ELSE <<>>)
         \o KeptPairs(bs, i + 1)

\* C5 (amended): for a text of k blocks in the requested format the parser
\* never raises and yields, in order, the pairs (strip(q_i), strip(e_i)) of
\* the blocks whose question text is non-empty after stripping, cut to the
\* first num_questions of them; a block with an empty question is dropped.
C5_KeptPairs ==
    /\ p_pc # "raised"
    /\ p_pc = "done" =>
           LET kept == KeptPairs(p_blocks, 1)
           IN  /\ Len(p_result) = Min(Len(kept), p_num)
               /\ \A i \in 1..Len(p_result) : p_result[i] = kept[i]

C5_Witness ==
    /\ p_pc = "done"
    /\ Len(p_blocks) > p_num
    /\ Len(p_result) = p_num
    /\ \E i \in 1..Len(p_blocks) : Strip(p_blocks[i].q) = <<>>
    /\ \E i \in 1..Len(p_blocks) :
           Strip(p_blocks[i].q) \notin {<<>>, p_blocks[i].q}
    /\ \E i \in 1..Len(p_lines) : p_lines[i] = LineBlank
    /\ \E i, j \in 1..Len(p_result) : p_result[i] # p_result[j]

\* C6: the parsing of questions_text finishes with a list of pairs for
\* every text the model can return; it never ends the run with an error.
C6_NeverRaises == p_pc # "raised"

\* C7: every parsed question comes from exactly one line that starts with
\* "Question ", so the number of parsed questions never exceeds the number
\* of such lines.
C7_QuestionLines ==
    p_pc = "done" =>
        Len(p_result) <=
            Cardinality({i \in 1..Len(p_lines) :
                            StartsWith(p_lines[i], QuestionPrefix)})

====
